---------------------------- MODULE Spec2Model ----------------------------
(***************************************************************************)
(* A model of examples/sklearn/plot_cyclical_feature_engineering.py: the   *)
(* script's top-level statements in order, the estimator instances its     *)
(* pipelines are built from (and which of them are shared), the evaluate   *)
(* helper with its SilentMetaStep wrapper, and the data frame X as far as  *)
(* the categorical columns go.                                             *)
(*                                                                         *)
(* Row indices are 0-based and a row range is a pair <<lo, hi>> standing   *)
(* for the rows lo .. hi-1, as a Python slice does. A column is held       *)
(* run-length encoded: a sequence of [len, val] segments.                  *)
(***************************************************************************)
EXTENDS Integers, Sequences, FiniteSets, TLC

VARIABLES
    pc,          \* index into Script of the statement to run next
    status,      \* "running" | "raised" | "done"
    libExc,      \* what the failing library call raised
    exc,         \* what reached the top level of the script
    failedAt,    \* the statement whose call raised (0: none)
    attempts,    \* per statement, how many times it was started
    df,          \* bike_sharing.frame
    X,           \* df.drop("count", axis="columns"), then edited in place
    all_splits,  \* list(ts_cv.split(X, y))
    built,       \* the pipelines constructed so far
    fittedOn,    \* per estimator instance, its fitted state
    ev,          \* the locals of the running evaluate(model, X, y, cv) call
    printed,     \* what the last evaluate printed
    faults,      \* failures cross_validate has absorbed so far
    encSeen,     \* the last input that reached ordinal_encoder
    non_categorical_columns, \* the list computed at line 222
    gbrtSeen,    \* the last matrix that reached HistGradientBoostingRegressor
    lastUse,     \* the last top-level predict / transform
    fitDone,     \* the pipelines a fit of which has completed
    hyperparams, \* per pipeline, its hyper-parameter setting
    ret          \* the last get_params / set_params call and its result

vars == <<pc, status, libExc, exc, failedAt, attempts, df, X, all_splits,
          built, fittedOn, ev, printed, faults, encSeen,
          non_categorical_columns, gbrtSeen, lastUse, fitDone, hyperparams,
          ret>>

----------------------------------------------------------------------------
(* Bounds of the model. *)

\* segments a generated weather column may have
MaxSeg == 2
\* failures cross_validate may absorb (error_score=nan) in one run
MaxFaults == 1
\* hyper-parameter settings range over 0 .. MaxHP
MaxHP == 1

----------------------------------------------------------------------------
(* Sequences and run-length encoded columns. *)

Range(s) == { s[i] : i \in DOMAIN s }

RECURSIVE SumLen(_, _)
SumLen(segs, j) == IF j = 0 THEN 0 ELSE SumLen(segs, j - 1) + segs[j].len

NRows(segs) == SumLen(segs, Len(segs))

\* the values of the rows lo .. hi-1 of a column
ValuesIn(segs, lo, hi) ==
    { segs[j].val : j \in { k \in DOMAIN segs :
                              /\ segs[k].len > 0
                              /\ SumLen(segs, k - 1) < hi
                              /\ SumLen(segs, k) > lo } }

ConstColumn(n, v) == << [len |-> n, val |-> v] >>

SortedSeq(S) ==
    CHOOSE s \in [1 .. Cardinality(S) -> S] :
        \A i, j \in 1 .. Cardinality(S) : i < j => s[i] < s[j]

\* the column with boundaries at the rows of S and the values vals
SegsOf(S, vals, n) ==
    LET b == SortedSeq(S)
        m == Cardinality(S)
        lo(j) == IF j = 1 THEN 0 ELSE b[j - 1]
        hi(j) == IF j = m + 1 THEN n ELSE b[j]
    IN  [j \in 1 .. m + 1 |-> [len |-> hi(j) - lo(j), val |-> vals[j]]]

----------------------------------------------------------------------------
(* The data set: Bike_Sharing_Demand, version 2, as a frame. *)

DfColumns ==
    << "season", "year", "month", "hour", "holiday", "weekday",
       "workingday", "weather", "temp", "feel_temp", "humidity",
       "windspeed", "count" >>

WeatherValues == {"clear", "misty", "rain", "heavy_rain"}

categorical_columns == << "weather", "season", "holiday", "workingday" >>

categories ==
    << << "clear", "misty", "rain" >>,
       << "spring", "summer", "fall", "winter" >>,
       << "False", "True" >>,
       << "False", "True" >> >>

hour_weekday_month == << "hour", "weekday", "month" >>

EmptyFrame == [columns |-> << >>, n |-> 0, data |-> << >>]

MkFrame(n, weather, other) ==
    [columns |-> DfColumns,
     n       |-> n,
     data    |-> [c \in Range(DfColumns) |->
                    CASE c = "weather"    -> weather
                      [] c = "season"     -> ConstColumn(n, other[1])
                      [] c = "holiday"    -> ConstColumn(n, other[2])
                      [] c = "workingday" -> ConstColumn(n, other[3])
                      [] OTHER            -> ConstColumn(n, 0)]]

\* df.drop(col, axis="columns"): a new frame without the column
drop(frame, col) ==
    [columns |-> SelectSeq(frame.columns, LAMBDA c : c # col),
     n       |-> frame.n,
     data    |-> [c \in DOMAIN frame.data \ {col} |-> frame.data[c]]]

\* Series.replace(to_replace=a, value=b) on a column
replace(segs, to_replace, value) ==
    [j \in DOMAIN segs |->
        [len |-> segs[j].len,
         val |-> IF segs[j].val = to_replace THEN value ELSE segs[j].val]]

\* X["weather"].replace(to_replace="heavy_rain", value="rain", inplace=True)
ReplaceWeather_none(frame) == frame

ReplaceWeather_swapped(frame) ==
    [frame EXCEPT !.data["weather"] = replace(@, "rain", "heavy_rain")]

ReplaceWeather(frame) ==
    [frame EXCEPT !.data["weather"] = replace(@, "heavy_rain", "rain")]

----------------------------------------------------------------------------
(* Time-based cross-validation. *)

ts_cv_no_gap ==
    [n_splits |-> 5, gap |-> 0, max_train_size |-> 10000, test_size |-> 1000]

ts_cv ==
    [n_splits |-> 5, gap |-> 48, max_train_size |-> 10000, test_size |-> 1000]

\* TimeSeriesSplit.split on n_samples rows: it raises ValueError when the
\* rows do not suffice, and otherwise yields n_splits folds, the test sets
\* being the last n_splits blocks of test_size rows.
TimeSeriesSplit_split(cv, n_samples) ==
    LET n_folds == cv.n_splits + 1
        fold(i) ==
            LET test_start == n_samples - cv.n_splits * cv.test_size
                                + (i - 1) * cv.test_size
                train_end  == test_start - cv.gap
            IN  [train |-> IF cv.max_train_size > 0
                              /\ cv.max_train_size < train_end
                           THEN << train_end - cv.max_train_size, train_end >>
                           ELSE << 0, train_end >>,
                 test  |-> << test_start, test_start + cv.test_size >>]
    IN  IF \/ n_folds > n_samples
           \/ n_samples - cv.gap - cv.test_size * cv.n_splits <= 0
        THEN [raises |-> TRUE, folds |-> << >>]
        ELSE [raises |-> FALSE, folds |-> [i \in 1 .. cv.n_splits |-> fold(i)]]

----------------------------------------------------------------------------
(* The estimator instances and the pipelines built from them. An instance  *)
(* is named by its class, the line that creates it and, where one line     *)
(* creates several, the column it is for.                                  *)

Inst(class, line, tag) == << class, line, tag >>

ordinal_encoder == Inst("OrdinalEncoder", 229, "")

categorical_one_hot_encoders ==
    [i \in 1 .. Len(categorical_columns) |->
        Inst("OneHotEncoder", 302, categorical_columns[i])]

time_one_hot_encoders ==
    [i \in 1 .. Len(hour_weekday_month) |->
        Inst("OneHotEncoder", 350, hour_weekday_month[i])]

gbrt_pipeline ==
    << ordinal_encoder,
       Inst("Identity", 235, ""),
       Inst("HistGradientBoostingRegressor", 237, "") >>

naive_linear_pipeline ==
    categorical_one_hot_encoders
      \o << Inst("MinMaxScaler", 309, ""), Inst("RidgeCV", 311, "") >>

one_hot_linear_pipeline_shared_scaler ==
    categorical_one_hot_encoders \o time_one_hot_encoders
      \o << Inst("MinMaxScaler", 309, ""), Inst("RidgeCV", 360, "") >>

one_hot_linear_pipeline ==
    categorical_one_hot_encoders \o time_one_hot_encoders
      \o << Inst("MinMaxScaler", 358, ""), Inst("RidgeCV", 360, "") >>

cyclic_cossin_transformer ==
    categorical_one_hot_encoders
      \o << Inst("FunctionTransformer", 441, "sin"),
            Inst("FunctionTransformer", 442, "cos"),
            Inst("FunctionTransformer", 443, "sin"),
            Inst("FunctionTransformer", 444, "cos"),
            Inst("FunctionTransformer", 445, "sin"),
            Inst("FunctionTransformer", 446, "cos"),
            Inst("MinMaxScaler", 447, "") >>

cyclic_cossin_linear_pipeline ==
    cyclic_cossin_transformer \o << Inst("RidgeCV", 452, "") >>

cyclic_spline_transformer ==
    categorical_one_hot_encoders
      \o << Inst("SplineTransformer", 516, ""),
            Inst("SplineTransformer", 517, ""),
            Inst("SplineTransformer", 518, ""),
            Inst("MinMaxScaler", 519, "") >>

cyclic_spline_linear_pipeline ==
    cyclic_spline_transformer \o << Inst("RidgeCV", 523, "") >>

hour_workday_interaction ==
    << Inst("SplineTransformer", 661, ""),
       Inst("FunctionTransformer", 662, ""),
       Inst("PolynomialFeatures", 664, "") >>

cyclic_spline_interactions_pipeline ==
    cyclic_spline_transformer \o hour_workday_interaction
      \o << Inst("RidgeCV", 677, "") >>

cyclic_spline_poly_pipeline ==
    cyclic_spline_transformer
      \o << Inst("Nystroem", 702, ""), Inst("RidgeCV", 703, "") >>

one_hot_poly_pipeline ==
    categorical_one_hot_encoders \o time_one_hot_encoders
      \o << Inst("Identity", 724, ""),
            Inst("Nystroem", 726, ""),
            Inst("RidgeCV", 727, "") >>

Pipelines ==
    { "gbrt_pipeline", "naive_linear_pipeline", "one_hot_linear_pipeline",
      "cyclic_cossin_linear_pipeline", "cyclic_spline_linear_pipeline",
      "cyclic_spline_interactions_pipeline", "cyclic_spline_poly_pipeline",
      "one_hot_poly_pipeline" }

\* the steps of a pipeline, flattened, in the order fit visits them
Steps(p) ==
    CASE p = "gbrt_pipeline"                       -> gbrt_pipeline
      [] p = "naive_linear_pipeline"               -> naive_linear_pipeline
      [] p = "one_hot_linear_pipeline"             -> one_hot_linear_pipeline
      [] p = "cyclic_cossin_linear_pipeline"       -> cyclic_cossin_linear_pipeline
      [] p = "cyclic_spline_linear_pipeline"       -> cyclic_spline_linear_pipeline
      [] p = "cyclic_spline_interactions_pipeline" -> cyclic_spline_interactions_pipeline
      [] p = "cyclic_spline_poly_pipeline"         -> cyclic_spline_poly_pipeline
      [] p = "one_hot_poly_pipeline"               -> one_hot_poly_pipeline
      [] OTHER                                     -> << >>

ObjectsOf(p) == Range(Steps(p))

\* pipeline[:-1]: all steps but the final estimator
AllButLast(p) == { Steps(p)[i] : i \in 1 .. Len(Steps(p)) - 1 }

Instances == UNION { ObjectsOf(p) : p \in Pipelines }

\* the instances that more than one pipeline is built from
SharedInstances ==
    { o \in Instances :
        \E p, q \in Pipelines : p # q /\ o \in ObjectsOf(p) /\ o \in ObjectsOf(q) }

----------------------------------------------------------------------------
(* The script: its top-level statements, in order. *)

St(op, pipe, line) == [op |-> op, pipe |-> pipe, line |-> line]

DataExploration ==
    << St("fetch", "", 57), St("plot", "", 70), St("plot", "", 107),
       St("drop", "", 120), St("replace", "", 141) >>

TimeBasedCrossValidation == << St("split", "", 175) >>

GradientBoosting ==
    << St("build", "gbrt_pipeline", 232), St("evaluate", "gbrt_pipeline", 278) >>

NaiveLinearRegression ==
    << St("build", "naive_linear_pipeline", 306),
       St("evaluate", "naive_linear_pipeline", 314) >>

TimeStepsAsCategories ==
    << St("build", "one_hot_linear_pipeline", 354),
       St("evaluate", "one_hot_linear_pipeline", 363) >>

TrigonometricFeatures ==
    << St("plot", "", 411),
       St("build", "cyclic_cossin_linear_pipeline", 450),
       St("evaluate", "cyclic_cossin_linear_pipeline", 455) >>

PeriodicSplineFeatures ==
    << St("plot", "", 491),
       St("build", "cyclic_spline_linear_pipeline", 521),
       St("evaluate", "cyclic_spline_linear_pipeline", 525) >>

QualitativeAnalysisLinear_predict_first ==
    << St("predict", "naive_linear_pipeline", 543),
       St("fit", "naive_linear_pipeline", 542),
       St("fit", "one_hot_linear_pipeline", 545),
       St("predict", "one_hot_linear_pipeline", 546),
       St("fit", "cyclic_cossin_linear_pipeline", 548),
       St("predict", "cyclic_cossin_linear_pipeline", 549),
       St("fit", "cyclic_spline_linear_pipeline", 551),
       St("predict", "cyclic_spline_linear_pipeline", 552),
       St("plot", "", 558),
       St("transform", "naive_linear_pipeline", 616),
       St("transform", "one_hot_linear_pipeline", 619),
       St("transform", "cyclic_cossin_linear_pipeline", 622),
       St("transform", "cyclic_spline_linear_pipeline", 625) >>

QualitativeAnalysisLinear ==
    << St("fit", "naive_linear_pipeline", 542),
       St("predict", "naive_linear_pipeline", 543),
       St("fit", "one_hot_linear_pipeline", 545),
       St("predict", "one_hot_linear_pipeline", 546),
       St("fit", "cyclic_cossin_linear_pipeline", 548),
       St("predict", "cyclic_cossin_linear_pipeline", 549),
       St("fit", "cyclic_spline_linear_pipeline", 551),
       St("predict", "cyclic_spline_linear_pipeline", 552),
       St("plot", "", 558),
       St("transform", "naive_linear_pipeline", 616),
       St("transform", "one_hot_linear_pipeline", 619),
       St("transform", "cyclic_cossin_linear_pipeline", 622),
       St("transform", "cyclic_spline_linear_pipeline", 625) >>

PairwiseInteractions ==
    << St("build", "cyclic_spline_interactions_pipeline", 672),
       St("evaluate", "cyclic_spline_interactions_pipeline", 679) >>

KernelModels ==
    << St("build", "cyclic_spline_poly_pipeline", 700),
       St("evaluate", "cyclic_spline_poly_pipeline", 705),
       St("build", "one_hot_poly_pipeline", 720),
       St("evaluate", "one_hot_poly_pipeline", 729) >>

QualitativeAnalysisNonLinear ==
    << St("fit", "gbrt_pipeline", 742),
       St("predict", "gbrt_pipeline", 743),
       St("fit", "one_hot_poly_pipeline", 745),
       St("predict", "one_hot_poly_pipeline", 746),
       St("fit", "cyclic_spline_poly_pipeline", 748),
       St("predict", "cyclic_spline_poly_pipeline", 749),
       St("plot", "", 754),
       St("plot", "", 804) >>

Script ==
    DataExploration \o TimeBasedCrossValidation \o GradientBoosting
      \o NaiveLinearRegression \o TimeStepsAsCategories
      \o TrigonometricFeatures \o PeriodicSplineFeatures
      \o QualitativeAnalysisLinear \o PairwiseInteractions \o KernelModels
      \o QualitativeAnalysisNonLinear

\* the statements up to the first evaluate: the part that prepares the data
DataPrefix ==
    Len(DataExploration) + Len(TimeBasedCrossValidation) + Len(GradientBoosting)

----------------------------------------------------------------------------
(* Fitted state. An instance holds [rows |-> k, done |-> TRUE] after a fit *)
(* on the training rows of fold k completed (train_0 is fold 1), and       *)
(* done = FALSE when it was never fitted (rows = 0) or when the last fit   *)
(* that reached it raised before the pipeline was through.                 *)

Unfitted == [rows |-> 0, done |-> FALSE]

\* Pipeline.fit: every step instance is fitted in place
FitPipeline(f, p, k) ==
    [o \in DOMAIN f |->
        IF o \in ObjectsOf(p) THEN [rows |-> k, done |-> TRUE] ELSE f[o]]

\* a fit that raises part-way through the steps
FitPipelineFails(f, p, k) ==
    [o \in DOMAIN f |->
        IF o \in ObjectsOf(p) THEN [rows |-> k, done |-> FALSE] ELSE f[o]]

\* the categorical columns of the rows a range selects: what the pair
\* (categorical_columns, ordinal_encoder) of the column transformer passes on
EncoderInput(frame, rows) ==
    [i \in 1 .. Len(categorical_columns) |->
        ValuesIn(frame.data[categorical_columns[i]], rows[1], rows[2])]

\* OrdinalEncoder(categories=categories): an unknown value is an error
OrdinalEncoder_accepts(values) ==
    \A i \in DOMAIN values : values[i] \subseteq Range(categories[i])

UsesEncoder(p) == ordinal_encoder \in ObjectsOf(p)

NoEncoderCall ==
    [call |-> "none", fold |-> 0,
     values |-> [i \in 1 .. Len(categorical_columns) |-> {}]]

\* [i for i in X.columns if i not in categorical_columns]
NonCategoricalColumns(frame) ==
    SelectSeq(frame.columns, LAMBDA i : i \notin Range(categorical_columns))

\* the (columns, step) pairs in the other order
gbrt_column_transformer_swapped ==
    << [columns |-> non_categorical_columns, step |-> Inst("Identity", 235, "")],
       [columns |-> categorical_columns, step |-> ordinal_encoder] >>

\* ColumnTransformer([(categorical_columns, ordinal_encoder),
\*                    (non_categorical_columns, Identity())], n_dimension=2)
gbrt_column_transformer ==
    << [columns |-> categorical_columns, step |-> ordinal_encoder],
       [columns |-> non_categorical_columns, step |-> Inst("Identity", 235, "")] >>

\* HistGradientBoostingRegressor(categorical_features=range(4)): 0-based
\* positions in the matrix the regressor is given
categorical_features == 0 .. (4 - 1)

\* what one (columns, step) pair emits: a column per selected column, in
\* the order selected; OrdinalEncoder turns each into its category codes,
\* Identity leaves each as it is
StepOutput(t) ==
    [i \in 1 .. Len(t.columns) |->
        [column |-> t.columns[i], encoded |-> t.step = ordinal_encoder]]

RECURSIVE NumpyConcatenate(_)
NumpyConcatenate(parts) ==
    IF parts = << >> THEN << >>
    ELSE Head(parts) \o NumpyConcatenate(Tail(parts))

\* ColumnTransformer.transform: the outputs of the pairs, side by side in
\* the order the pairs are listed
ColumnTransformer_transform(pairs) ==
    NumpyConcatenate([k \in 1 .. Len(pairs) |-> StepOutput(pairs[k])])

NoGbrtCall == [call |-> "none", layout |-> << >>, categorical |-> {}]

\* the matrix gbrt_pipeline's regressor is given in a fit or a predict
GbrtCall(call) ==
    [call        |-> call,
     layout      |-> ColumnTransformer_transform(gbrt_column_transformer),
     categorical |-> categorical_features]

\* the regressor is reached when the encoder before it has not raised
GbrtSeenAfter(p, call, input) ==
    IF UsesEncoder(p) /\ OrdinalEncoder_accepts(input)
    THEN GbrtCall(call) ELSE gbrtSeen

----------------------------------------------------------------------------
(* evaluate(model, X, y, cv) and its SilentMetaStep. A dict is a set of    *)
(* <<name, value>> pairs; keyword arguments are a record saying which of   *)
(* deep and hp were given.                                                 *)

NoStep == [wrapped |-> ""]

\* def __init__(self): super().__init__(wrapped=model)
SilentMetaStep_init(model) == [wrapped |-> model]

\* def get_params(self, deep=False) -> dict: return dict()
SilentMetaStep_get_params(self, deep) == {}

Kwargs ==
    [given : SUBSET {"deep", "hp"}, deep : BOOLEAN, hp : 0 .. MaxHP]

\* MetaStep.set_params: hands the parameters to the wrapped model
MetaStep_set_params(self, kwargs) ==
    [raises      |-> FALSE,
     self        |-> self,
     hyperparams |-> IF "hp" \in kwargs.given
                     THEN [hyperparams EXCEPT ![self.wrapped] = kwargs.hp]
                     ELSE hyperparams]

\* def set_params(self, deep=False) -> dict: pass
\* (a keyword other than deep is a TypeError of the call itself)
SilentMetaStep_set_params(self, kwargs) ==
    [raises      |-> ~ (kwargs.given \subseteq {"deep"}),
     self        |-> self,
     hyperparams |-> hyperparams]

\* fit is not overridden: MetaStep.fit fits the wrapped pipeline
SilentMetaStep_fit_silenced(self, f, k) == f

SilentMetaStep_fit(self, f, k) == FitPipeline(f, self.wrapped, k)

\* sklearn.base.clone: klass(**estimator.get_params(deep=False)); the new
\* SilentMetaStep takes its model from the enclosing evaluate call
clone(estimator, model) ==
    LET params == SilentMetaStep_get_params(estimator, FALSE)
    IN  [raises |-> params # {}, new |-> SilentMetaStep_init(model)]

NaN == [nan |-> TRUE, v |-> 0]

Num(v) == [nan |-> FALSE, v |-> v]

Negate(s) == IF s.nan THEN s ELSE Num(- s.v)

RECURSIVE Sum(_, _)
Sum(xs, j) == IF j = 0 THEN 0 ELSE Sum(xs, j - 1) + xs[j]

Abs(a) == IF a < 0 THEN - a ELSE a

\* a / b to the nearest integer, ties to even
RoundDiv(a, b) ==
    LET q == Abs(a) \div b
        r == Abs(a) % b
        m == IF 2 * r < b \/ (2 * r = b /\ q % 2 = 0) THEN q ELSE q + 1
    IN  IF a < 0 THEN - m ELSE m

\* ndarray.mean() of scores given in thousandths, as "{:.3f}" shows it
Mean3(a) ==
    IF \E i \in DOMAIN a : a[i].nan THEN NaN
    ELSE Num(RoundDiv(Sum([i \in DOMAIN a |-> a[i].v], Len(a)), Len(a)))

\* ndarray.std() (population standard deviation), as "{:.3f}" shows it
Std3(a) ==
    IF \E i \in DOMAIN a : a[i].nan THEN NaN
    ELSE LET n  == Len(a)
             xs == [i \in DOMAIN a |-> a[i].v]
             S  == Sum(xs, n)
             Q  == Sum([i \in DOMAIN a |-> xs[i] * xs[i]], n)
             N4 == 4 * (n * Q - S * S)
             top == 1 + Sum([i \in DOMAIN a |-> Abs(xs[i])], n)
         IN  Num(CHOOSE r \in 0 .. top :
                   /\ (r = 0 \/ (2 * r - 1) * (2 * r - 1) * n * n <= N4)
                   /\ N4 < (2 * r + 1) * (2 * r + 1) * n * n)

NoResults ==
    [test_neg_mean_absolute_error     |-> << >>,
     test_neg_root_mean_squared_error |-> << >>]

NoPrint ==
    [model |-> "", n |-> 0, mae_mean |-> NaN, mae_std |-> NaN,
     rmse_mean |-> NaN, rmse_std |-> NaN]

\* the same with the scores taken as cross_validate returns them
evaluate_report_not_negated(model, cv_results) ==
    LET mae  == cv_results.test_neg_mean_absolute_error
        rmse == cv_results.test_neg_root_mean_squared_error
    IN  [model |-> model, n |-> Len(mae),
         mae_mean |-> Mean3(mae), mae_std |-> Std3(mae),
         rmse_mean |-> Mean3(rmse), rmse_std |-> Std3(rmse)]

\* mae = -cv_results[...]; rmse = -cv_results[...]; print(mean, std)
evaluate_report(model, cv_results) ==
    LET mae  == [i \in DOMAIN cv_results.test_neg_mean_absolute_error |->
                    Negate(cv_results.test_neg_mean_absolute_error[i])]
        rmse == [i \in DOMAIN cv_results.test_neg_root_mean_squared_error |->
                    Negate(cv_results.test_neg_root_mean_squared_error[i])]
    IN  [model |-> model, n |-> Len(mae),
         mae_mean |-> Mean3(mae), mae_std |-> Std3(mae),
         rmse_mean |-> Mean3(rmse), rmse_std |-> Std3(rmse)]

IdleEv ==
    [phase |-> "idle", fold |-> 0, model |-> "", silent_model |-> NoStep,
     estimator |-> NoStep, cv_results |-> NoResults, errors |-> << >>]

\* what a fold's scorers measured: the errors in thousandths
Measured(s) == [nan |-> FALSE, mae |-> s[1], rmse |-> s[2]]

NotMeasured == [nan |-> TRUE, mae |-> 0, rmse |-> 0]

\* one fold's entry of cv_results: the neg_* scorers give minus the error,
\* and error_score=nan stands in for a fit or a scoring that raised
Append2(results, m) ==
    [test_neg_mean_absolute_error |->
        Append(results.test_neg_mean_absolute_error,
               IF m.nan THEN NaN ELSE Num(- m.mae)),
     test_neg_root_mean_squared_error |->
        Append(results.test_neg_root_mean_squared_error,
               IF m.nan THEN NaN ELSE Num(- m.rmse))]

----------------------------------------------------------------------------
(* Failures. The script has no try statement: what a call raises ends it.  *)

NoExc == [type |-> "", line |-> 0]

\* as if the statement stood in a loop that tries it a second time
Propagate_retry(e) ==
    [status |-> IF attempts[pc] = 0 THEN "running" ELSE "raised", exc |-> e]

Propagate(e) == [status |-> "raised", exc |-> e]

----------------------------------------------------------------------------
(* The frames a run may fetch. *)

NSamples == {5048, 5049, 12000, 17379}

\* rows at which a generated weather column may change value
Cuts(n) ==
    { n - ts_cv.n_splits * ts_cv.test_size - ts_cv.gap,
      n - ts_cv.n_splits * ts_cv.test_size, n - ts_cv.test_size }
      \cap (1 .. n - 1)

WeatherColumns(n) ==
    UNION { { SegsOf(S, v, n) : v \in [1 .. Cardinality(S) + 1 -> WeatherValues] } :
            S \in { T \in SUBSET Cuts(n) : Cardinality(T) <= MaxSeg - 1 } }

OtherValues ==
    { << "spring", "False", "True" >>, << "winter", "True", "False" >> }

Datasets ==
    UNION { { MkFrame(n, w, o) : w \in WeatherColumns(n), o \in OtherValues } :
            n \in NSamples }

ScriptDatasets ==
    { MkFrame(5048, ConstColumn(5048, "clear"), << "spring", "False", "True" >>),
      MkFrame(17379, SegsOf({3}, << "heavy_rain", "clear" >>, 17379),
              << "fall", "False", "True" >>) }

\* errors (MAE, RMSE), in thousandths, a fold's scoring may measure
Scores == { << 40, 60 >>, << 50, 70 >> }

OneScore == { << 40, 60 >> }

----------------------------------------------------------------------------
(* The state after the imports. *)

NoUse == [op |-> "none", pipe |-> "", line |-> 0, fitted |-> FALSE, states |-> {}]

NoCall ==
    [call |-> "none", kwargs |-> [given |-> {}, deep |-> FALSE, hp |-> 0],
     raises |-> FALSE, none |-> TRUE, value |-> {}]

InitScript ==
    /\ pc = 1
    /\ status = "running"
    /\ libExc = NoExc
    /\ exc = NoExc
    /\ failedAt = 0
    /\ attempts = [i \in 1 .. Len(Script) |-> 0]
    /\ df = EmptyFrame
    /\ X = EmptyFrame
    /\ all_splits = << >>
    /\ built = {}
    /\ fittedOn = [o \in Instances |-> Unfitted]
    /\ ev = IdleEv
    /\ printed = NoPrint
    /\ faults = 0
    /\ encSeen = NoEncoderCall
    /\ non_categorical_columns = << >>
    /\ gbrtSeen = NoGbrtCall
    /\ lastUse = NoUse
    /\ fitDone = {}
    /\ ret = NoCall

Init == InitScript /\ hyperparams = [p \in Pipelines |-> 0]

----------------------------------------------------------------------------
(* The statements of the script. *)

At(op) ==
    /\ status = "running"
    /\ pc <= Len(Script)
    /\ Script[pc].op = op
    /\ ev.phase = "idle"

Started == attempts' = [attempts EXCEPT ![pc] = @ + 1]

Advance ==
    /\ pc' = pc + 1
    /\ status' = IF pc + 1 > Len(Script) THEN "done" ELSE "running"
    /\ UNCHANGED <<libExc, exc, failedAt>>

\* the call of the statement at pc raises e
RaiseNow(e) ==
    /\ libExc' = e
    /\ exc' = Propagate(e).exc
    /\ status' = Propagate(e).status
    /\ failedAt' = pc
    /\ pc' = pc

\* bike_sharing = fetch_openml(...); df = bike_sharing.frame
Fetch(datasets) ==
    /\ At("fetch")
    /\ \E d \in datasets : df' = d
    /\ Started /\ Advance
    /\ UNCHANGED <<X, all_splits, built, fittedOn, ev, printed, faults,
                   encSeen,
                   non_categorical_columns, gbrtSeen, lastUse, fitDone, hyperparams, ret>>

\* the plots and displays between the stages
Plot ==
    /\ At("plot")
    /\ Started /\ Advance
    /\ UNCHANGED <<df, X, all_splits, built, fittedOn, ev, printed, faults,
                   encSeen,
                   non_categorical_columns, gbrtSeen, lastUse, fitDone, hyperparams, ret>>

\* X = df.drop("count", axis="columns")
Drop ==
    /\ At("drop")
    /\ X' = drop(df, "count")
    /\ Started /\ Advance
    /\ UNCHANGED <<df, all_splits, built, fittedOn, ev, printed, faults,
                   encSeen,
                   non_categorical_columns, gbrtSeen, lastUse, fitDone, hyperparams, ret>>

\* X["weather"].replace(to_replace="heavy_rain", value="rain", inplace=True)
Replace ==
    /\ At("replace")
    /\ X' = ReplaceWeather(X)
    /\ Started /\ Advance
    /\ UNCHANGED <<df, all_splits, built, fittedOn, ev, printed, faults,
                   encSeen,
                   non_categorical_columns, gbrtSeen, lastUse, fitDone, hyperparams, ret>>

\* all_splits = list(ts_cv.split(X, y)); train_0, test_0 = all_splits[0]
Split ==
    /\ At("split")
    /\ Started
    /\ LET r == TimeSeriesSplit_split(ts_cv, X.n)
       IN  IF r.raises
           THEN /\ RaiseNow([type |-> "ValueError", line |-> Script[pc].line])
                /\ UNCHANGED all_splits
           ELSE /\ all_splits' = r.folds
                /\ Advance
    /\ UNCHANGED <<df, X, built, fittedOn, ev, printed, faults, encSeen,
                   non_categorical_columns, gbrtSeen,
                   lastUse, fitDone, hyperparams, ret>>

\* <name>_pipeline = Pipeline([...])
Build ==
    /\ At("build")
    /\ built' = built \cup {Script[pc].pipe}
    /\ non_categorical_columns' =
          IF Script[pc].pipe = "gbrt_pipeline"
          THEN NonCategoricalColumns(X) ELSE non_categorical_columns
    /\ Started /\ Advance
    /\ UNCHANGED <<df, X, all_splits, fittedOn, ev, printed, faults, encSeen,
                   gbrtSeen,
                   lastUse, fitDone, hyperparams, ret>>

----------------------------------------------------------------------------
(* evaluate(<pipeline>, X, y, cv=ts_cv): cross_validate takes the folds in *)
(* order and, for each, clones the estimator, fits the clone on the        *)
(* training rows and scores it on the test rows. With the default          *)
(* error_score=nan a fit or a scoring that raises costs the fold its       *)
(* scores and nothing else.                                                *)

\* silent_model = SilentMetaStep(); cross_validate(silent_model, ...)
EvaluateCall ==
    /\ At("evaluate")
    /\ Started
    /\ ev' = [IdleEv EXCEPT !.phase = "clone", !.fold = 1,
                            !.model = Script[pc].pipe,
                            !.silent_model = SilentMetaStep_init(Script[pc].pipe)]
    /\ UNCHANGED <<pc, status, libExc, exc, failedAt, df, X, all_splits,
                   built, fittedOn, printed, faults, encSeen,
                   non_categorical_columns, gbrtSeen, lastUse,
                   fitDone, hyperparams, ret>>

CvClone ==
    /\ status = "running"
    /\ ev.phase = "clone"
    /\ LET c == clone(ev.silent_model, ev.model)
       IN  IF c.raises
           THEN /\ RaiseNow([type |-> "TypeError", line |-> Script[pc].line])
                /\ UNCHANGED ev
           ELSE /\ ev' = [ev EXCEPT !.estimator = c.new, !.phase = "fit"]
                /\ UNCHANGED <<pc, status, libExc, exc, failedAt>>
    /\ UNCHANGED <<attempts, df, X, all_splits, built, fittedOn, printed,
                   faults, encSeen,
                   non_categorical_columns, gbrtSeen, lastUse, fitDone, hyperparams, ret>>

\* the fold after fold k, or the report once the folds are through
NextFold(e) ==
    IF e.fold < Len(all_splits)
    THEN [e EXCEPT !.fold = @ + 1, !.phase = "clone"]
    ELSE [e EXCEPT !.phase = "report"]

NotScored(k) ==
    [fold |-> k, scored |-> FALSE, measured |-> NotMeasured, modelFit |-> {}]

\* estimator.fit(X.iloc[train], y.iloc[train])
CvFit ==
    /\ status = "running"
    /\ ev.phase = "fit"
    /\ LET k     == ev.fold
           p     == ev.estimator.wrapped
           input == EncoderInput(X, all_splits[k].train)
           unknown == UsesEncoder(p) /\ ~ OrdinalEncoder_accepts(input)
       IN  /\ encSeen' = IF UsesEncoder(p)
                         THEN [call |-> "fit", fold |-> k, values |-> input]
                         ELSE encSeen
           /\ gbrtSeen' = GbrtSeenAfter(p, "fit", input)
           /\ \E fails \in IF unknown THEN {TRUE}
                           ELSE IF faults < MaxFaults THEN BOOLEAN ELSE {FALSE} :
                IF fails
                THEN /\ fittedOn' = FitPipelineFails(fittedOn, p, k)
                     /\ faults' = faults + 1
                     /\ ev' = NextFold(
                                [ev EXCEPT !.cv_results = Append2(@, NotMeasured),
                                           !.errors = Append(@, NotScored(k))])
                     /\ UNCHANGED fitDone
                ELSE /\ fittedOn' = SilentMetaStep_fit(ev.estimator, fittedOn, k)
                     /\ fitDone' = fitDone \cup {p}
                     /\ ev' = [ev EXCEPT !.phase = "score"]
                     /\ UNCHANGED faults
    /\ UNCHANGED <<pc, status, libExc, exc, failedAt, attempts, df, X,
                   all_splits, built, printed, lastUse, hyperparams, ret,
                   non_categorical_columns>>

\* the two scorers call estimator.predict(X.iloc[test])
CvScore(scores) ==
    /\ status = "running"
    /\ ev.phase = "score"
    /\ LET k     == ev.fold
           p     == ev.estimator.wrapped
           input == EncoderInput(X, all_splits[k].test)
           unknown == UsesEncoder(p) /\ ~ OrdinalEncoder_accepts(input)
           outcomes ==
               IF unknown THEN {NotMeasured}
               ELSE { Measured(s) : s \in scores }
                      \cup (IF faults < MaxFaults THEN {NotMeasured} ELSE {})
       IN  /\ encSeen' = IF UsesEncoder(p)
                         THEN [call |-> "predict", fold |-> k, values |-> input]
                         ELSE encSeen
           /\ gbrtSeen' = GbrtSeenAfter(p, "predict", input)
           /\ \E m \in outcomes :
                /\ faults' = IF m.nan THEN faults + 1 ELSE faults
                /\ ev' = NextFold(
                           [ev EXCEPT
                              !.cv_results = Append2(@, m),
                              !.errors = Append(@,
                                 [fold |-> k, scored |-> TRUE, measured |-> m,
                                  modelFit |-> { fittedOn[o] : o \in ObjectsOf(p) }])])
    /\ UNCHANGED <<pc, status, libExc, exc, failedAt, attempts, df, X,
                   all_splits, built, fittedOn, printed, lastUse, fitDone,
                   hyperparams, ret,
                   non_categorical_columns>>

\* mae = -cv_results[...]; rmse = -cv_results[...]; print(...)
EvaluateReport ==
    /\ status = "running"
    /\ ev.phase = "report"
    /\ printed' = evaluate_report(ev.model, ev.cv_results)
    /\ ev' = IdleEv
    /\ Advance
    /\ UNCHANGED <<attempts, df, X, all_splits, built, fittedOn, faults,
                   encSeen,
                   non_categorical_columns, gbrtSeen, lastUse, fitDone, hyperparams, ret>>

----------------------------------------------------------------------------
(* The fits and predictions on the first split. *)

\* <pipeline>.fit(X.iloc[train_0], y.iloc[train_0])
Fit ==
    /\ At("fit")
    /\ Started
    /\ LET p     == Script[pc].pipe
           input == EncoderInput(X, all_splits[1].train)
       IN  /\ encSeen' = IF UsesEncoder(p)
                         THEN [call |-> "fit", fold |-> 1, values |-> input]
                         ELSE encSeen
           /\ gbrtSeen' = GbrtSeenAfter(p, "fit", input)
           /\ IF UsesEncoder(p) /\ ~ OrdinalEncoder_accepts(input)
              THEN /\ RaiseNow([type |-> "ValueError", line |-> Script[pc].line])
                   /\ fittedOn' = FitPipelineFails(fittedOn, p, 1)
                   /\ UNCHANGED fitDone
              ELSE /\ fittedOn' = FitPipeline(fittedOn, p, 1)
                   /\ fitDone' = fitDone \cup {p}
                   /\ Advance
    /\ UNCHANGED <<df, X, all_splits, built, ev, printed, faults, lastUse,
                   hyperparams, ret,
                   non_categorical_columns>>

\* <name>_predictions = <pipeline>.predict(X.iloc[test_0])
Predict ==
    /\ At("predict")
    /\ Started
    /\ LET p     == Script[pc].pipe
           input == EncoderInput(X, all_splits[1].test)
       IN  /\ encSeen' = IF UsesEncoder(p)
                         THEN [call |-> "predict", fold |-> 1, values |-> input]
                         ELSE encSeen
           /\ gbrtSeen' = GbrtSeenAfter(p, "predict", input)
           /\ lastUse' = [op |-> "predict", pipe |-> p, line |-> Script[pc].line,
                          fitted |-> p \in fitDone,
                          states |-> { fittedOn[o] : o \in ObjectsOf(p) }]
           /\ IF UsesEncoder(p) /\ ~ OrdinalEncoder_accepts(input)
              THEN RaiseNow([type |-> "ValueError", line |-> Script[pc].line])
              ELSE Advance
    /\ UNCHANGED <<df, X, all_splits, built, fittedOn, ev, printed, faults,
                   fitDone, hyperparams, ret,
                   non_categorical_columns>>

\* <pipeline>[:-1].transform(X).shape
Transform ==
    /\ At("transform")
    /\ Started
    /\ LET p == Script[pc].pipe
       IN  lastUse' = [op |-> "transform", pipe |-> p, line |-> Script[pc].line,
                       fitted |-> p \in fitDone,
                       states |-> { fittedOn[o] : o \in AllButLast(p) }]
    /\ Advance
    /\ UNCHANGED <<df, X, all_splits, built, fittedOn, ev, printed, faults,
                   encSeen,
                   non_categorical_columns, gbrtSeen, fitDone, hyperparams, ret>>

\* any call of the statement at pc may raise
Raises ==
    /\ status = "running"
    /\ pc <= Len(Script)
    /\ attempts' = IF ev.phase = "idle"
                   THEN [attempts EXCEPT ![pc] = @ + 1] ELSE attempts
    /\ RaiseNow([type |-> "Exception", line |-> Script[pc].line])
    /\ UNCHANGED <<df, X, all_splits, built, fittedOn, ev, printed, faults,
                   encSeen,
                   non_categorical_columns, gbrtSeen, lastUse, fitDone, hyperparams, ret>>

----------------------------------------------------------------------------
(* The whole script. *)

Next ==
    \/ Fetch(ScriptDatasets)
    \/ Plot
    \/ Drop
    \/ Replace
    \/ Split
    \/ Build
    \/ EvaluateCall
    \/ CvClone
    \/ CvFit
    \/ CvScore(Scores)
    \/ EvaluateReport
    \/ Fit
    \/ Predict
    \/ Transform
    \/ Raises

Spec == Init /\ [][Next]_vars

(* The script up to and including evaluate(gbrt_pipeline, ...), over every *)
(* generated frame.                                                        *)
InDataPrefix == pc <= DataPrefix

NextData ==
    \/ InDataPrefix /\ Fetch(Datasets)
    \/ InDataPrefix /\ Plot
    \/ InDataPrefix /\ Drop
    \/ InDataPrefix /\ Replace
    \/ InDataPrefix /\ Split
    \/ InDataPrefix /\ Build
    \/ InDataPrefix /\ EvaluateCall
    \/ InDataPrefix /\ CvClone
    \/ InDataPrefix /\ CvFit
    \/ InDataPrefix /\ CvScore(OneScore)
    \/ InDataPrefix /\ EvaluateReport

SpecData == Init /\ [][NextData]_vars

----------------------------------------------------------------------------
(* The parameter getters and setters of SilentMetaStep, called with every  *)
(* argument list, on the wrapper an evaluate call builds.                  *)

InitParams ==
    /\ InitScript
    /\ \E h \in 0 .. MaxHP : hyperparams = [p \in Pipelines |-> h]

\* evaluate(model, ...) up to silent_model = SilentMetaStep()
EvaluateEnter ==
    /\ ev.silent_model = NoStep
    /\ \E m \in Pipelines :
         ev' = [IdleEv EXCEPT !.model = m, !.silent_model = SilentMetaStep_init(m)]
    /\ UNCHANGED <<pc, status, libExc, exc, failedAt, attempts, df, X,
                   all_splits, built, fittedOn, printed, faults, encSeen,
                   non_categorical_columns, gbrtSeen,
                   lastUse, fitDone, hyperparams, ret>>

\* silent_model.get_params() / silent_model.get_params(deep=...)
CallGetParams ==
    /\ ev.silent_model # NoStep
    /\ \E kw \in { k \in Kwargs : k.given \subseteq {"deep"} } :
         ret' = [call |-> "get_params", kwargs |-> kw, raises |-> FALSE,
                 none |-> FALSE,
                 value |-> SilentMetaStep_get_params(
                              ev.silent_model, "deep" \in kw.given /\ kw.deep)]
    /\ UNCHANGED <<pc, status, libExc, exc, failedAt, attempts, df, X,
                   all_splits, built, fittedOn, ev, printed, faults, encSeen,
                   non_categorical_columns, gbrtSeen,
                   lastUse, fitDone, hyperparams>>

\* silent_model.set_params(**kwargs)
CallSetParams ==
    /\ ev.silent_model # NoStep
    /\ \E kw \in Kwargs :
         LET r == SilentMetaStep_set_params(ev.silent_model, kw)
         IN  /\ ret' = [call |-> "set_params", kwargs |-> kw,
                        raises |-> r.raises, none |-> TRUE, value |-> {}]
             /\ ev' = [ev EXCEPT !.silent_model = r.self]
             /\ hyperparams' = r.hyperparams
    /\ UNCHANGED <<pc, status, libExc, exc, failedAt, attempts, df, X,
                   all_splits, built, fittedOn, printed, faults, encSeen,
                   non_categorical_columns, gbrtSeen,
                   lastUse, fitDone>>

NextParams == EvaluateEnter \/ CallGetParams \/ CallSetParams

SpecParams == InitParams /\ [][NextParams]_vars

----------------------------------------------------------------------------
(* The properties. *)

\* C1: each of the 5 folds of ts_cv.split(X, y) keeps the chronological
\* order with a gap: every training row is before every test row, at least
\* 48 rows lie strictly between the last training row and the first test
\* row, there are at most 10000 training rows and exactly 1000 test rows.
FoldsRespectOrderAndGap ==
    all_splits # << >> =>
        /\ Len(all_splits) = 5
        /\ \A k \in DOMAIN all_splits :
             LET tr == all_splits[k].train
                 te == all_splits[k].test
             IN  /\ 0 <= tr[1] /\ tr[1] < tr[2] /\ te[1] < te[2] /\ te[2] <= X.n
                 /\ \A i \in {tr[1], tr[2] - 1} : \A j \in {te[1], te[2] - 1} : i < j
                 /\ te[1] - (tr[2] - 1) - 1 >= 48
                 /\ tr[2] - tr[1] <= 10000
                 /\ te[2] - te[1] = 1000

\* the real frame (17379 rows): the first fold trains on 10000 rows
FoldsOfTheRealFrame ==
    /\ X.n = 17379
    /\ all_splits # << >>
    /\ all_splits[1].train = << 2331, 12331 >>
    /\ all_splits[1].test = << 12379, 13379 >>

\* C2: a library call that raises ends the script: the exception reaches
\* the top level as raised, the call is not tried again and no later
\* statement runs.
RaiseEndsTheScript ==
    /\ status = "raised" =>
         /\ failedAt = pc
         /\ exc = libExc
         /\ attempts[pc] = 1
         /\ \A s \in DOMAIN attempts : s > pc => attempts[s] = 0
    /\ status = "done" => failedAt = 0

\* a top-level fit raised
AFitRaised ==
    /\ status = "raised"
    /\ Script[pc].op = "fit"
    /\ exc.type = "Exception"

ReusedTransformers ==
    Range(categorical_one_hot_encoders) \cup Range(time_one_hot_encoders)
      \cup Range(cyclic_spline_transformer)

\* C3, as claimed: fitting one pipeline never changes the fitted state of
\* an instance another pipeline is built from.
FitLeavesOtherPipelinesAlone ==
    [][pc <= Len(Script) =>
         \A q \in built \ {Script[pc].pipe} :
            \A o \in ObjectsOf(q) : fittedOn'[o] = fittedOn[o]]_vars

\* C3, amended: a fit changes the fitted state of the instances of the
\* pipeline being fitted only, and it reaches another pipeline only through
\* the instances the script reuses: the one-hot encoders of lines 302 and
\* 350 and the steps of cyclic_spline_transformer.
FitReachesOthersOnlyThroughReused ==
    [][pc <= Len(Script) =>
         \A o \in Instances :
            fittedOn'[o] # fittedOn[o] =>
               /\ o \in ObjectsOf(Script[pc].pipe)
               /\ o \in SharedInstances => o \in ReusedTransformers]_vars

\* evaluate(one_hot_linear_pipeline) has refitted an encoder of
\* naive_linear_pipeline
SharedEncoderRefitted ==
    /\ ev.model = "one_hot_linear_pipeline"
    /\ "naive_linear_pipeline" \in built
    /\ Inst("OneHotEncoder", 302, "weather") \in ObjectsOf("naive_linear_pipeline")
    /\ fittedOn[Inst("OneHotEncoder", 302, "weather")] = [rows |-> 3, done |-> TRUE]
    /\ fittedOn[Inst("MinMaxScaler", 309, "")] = [rows |-> 5, done |-> TRUE]

\* C4: a top-level predict or transform of a pipeline comes after a
\* completed fit of that pipeline, with every instance it uses fitted; and
\* no fit comes before the data is loaded.
PredictOnlyAfterFit ==
    /\ lastUse.op # "none" =>
         /\ lastUse.fitted
         /\ \A st \in lastUse.states : st.done /\ st.rows > 0
    /\ fitDone # {} => df.n > 0 /\ X.n > 0 /\ all_splits # << >>

\* the last transform, in a run in which cross_validate absorbed a failure
TransformAfterAbsorbedFailure ==
    /\ lastUse.op = "transform"
    /\ lastUse.pipe = "cyclic_spline_linear_pipeline"
    /\ faults > 0

\* C6: SilentMetaStep.get_params returns an empty dict whatever deep is,
\* and set_params changes neither the wrapper, nor the wrapped model, nor a
\* hyper-parameter of it.
ParamsAreSilenced ==
    [][/\ ret'.call = "get_params" /\ ret' # ret =>
            /\ ret'.value = {} /\ ~ ret'.none
            /\ UNCHANGED <<ev, hyperparams, fittedOn>>
       /\ ret'.call = "set_params" =>
            /\ ev'.silent_model = ev.silent_model
            /\ hyperparams' = hyperparams
            /\ fittedOn' = fittedOn]_vars

\* set_params(deep=True) returned, and get_params(deep=True) before it
SetParamsWasCalled ==
    /\ ret.call = "set_params"
    /\ ret.kwargs.given = {"deep"} /\ ret.kwargs.deep
    /\ ~ ret.raises
    /\ ev.silent_model.wrapped = "gbrt_pipeline"
    /\ hyperparams["gbrt_pipeline"] = 1

\* C7: every clone wraps the one model object, and still each fold is
\* scored with the model as the fit on that fold's training rows left it.
FoldScoredWithItsOwnFit ==
    /\ ev.phase \in {"fit", "score"} => ev.estimator.wrapped = ev.model
    /\ \A i \in DOMAIN ev.errors :
         /\ ev.errors[i].fold = i
         /\ ev.errors[i].scored =>
              ev.errors[i].modelFit = { [rows |-> i, done |-> TRUE] }

\* all five folds of evaluate(naive_linear_pipeline) were scored
FiveFoldsScored ==
    /\ ev.phase = "report"
    /\ ev.model = "naive_linear_pipeline"
    /\ Len(ev.errors) = 5
    /\ \A i \in DOMAIN ev.errors : ev.errors[i].scored /\ ~ ev.errors[i].measured.nan

ErrorsOf(errs, metric) ==
    [i \in DOMAIN errs |->
        IF errs[i].measured.nan THEN NaN
        ELSE Num(IF metric = "mae" THEN errs[i].measured.mae
                                   ELSE errs[i].measured.rmse)]

\* C8: evaluate gets one score per split for each metric, 5 in all, each
\* minus the neg_* score of that split, and prints their mean and standard
\* deviation.
ReportIsMeanOverFiveSplits ==
    [][ev.phase = "report" /\ ev'.phase = "idle" =>
         /\ Len(all_splits) = 5
         /\ Len(ev.errors) = 5
         /\ \A i \in DOMAIN ev.errors : ev.errors[i].fold = i
         /\ Len(ev.cv_results.test_neg_mean_absolute_error) = 5
         /\ Len(ev.cv_results.test_neg_root_mean_squared_error) = 5
         /\ printed'.model = ev.model
         /\ printed'.n = 5
         /\ printed'.mae_mean = Mean3(ErrorsOf(ev.errors, "mae"))
         /\ printed'.mae_std = Std3(ErrorsOf(ev.errors, "mae"))
         /\ printed'.rmse_mean = Mean3(ErrorsOf(ev.errors, "rmse"))
         /\ printed'.rmse_std = Std3(ErrorsOf(ev.errors, "rmse"))]_vars

\* folds with errors 40, 40, 40, 50, 50 thousandths: 0.044 +/- 0.005
ReportPrinted ==
    /\ printed.model = "gbrt_pipeline"
    /\ printed.n = 5
    /\ printed.mae_mean = Num(44)
    /\ printed.mae_std = Num(5)
    /\ printed.rmse_mean = Num(64)

AfterReplace == pc > Len(DataExploration)

WeatherOf(frame) == frame.data["weather"]

\* C9: after the replace of line 141 no row of X has weather "heavy_rain",
\* the rows that had it have "rain", every other row's weather and every
\* other column are as they were, and X has as many rows as before.
HeavyRainCollapsedIntoRain ==
    AfterReplace =>
        /\ X.n = df.n
        /\ NRows(WeatherOf(X)) = NRows(WeatherOf(df))
        /\ "heavy_rain" \notin ValuesIn(WeatherOf(X), 0, X.n)
        /\ DOMAIN WeatherOf(X) = DOMAIN WeatherOf(df)
        /\ \A j \in DOMAIN WeatherOf(df) :
             /\ WeatherOf(X)[j].len = WeatherOf(df)[j].len
             /\ WeatherOf(X)[j].val =
                  IF WeatherOf(df)[j].val = "heavy_rain" THEN "rain"
                  ELSE WeatherOf(df)[j].val
        /\ X.columns = SelectSeq(df.columns, LAMBDA c : c # "count")
        /\ \A c \in Range(X.columns) \ {"weather"} : X.data[c] = df.data[c]

\* a frame with both heavy_rain rows and rain rows went through the replace
HeavyRainWasReplaced ==
    /\ AfterReplace
    /\ ValuesIn(WeatherOf(df), 0, df.n) = {"heavy_rain", "rain"}
    /\ ValuesIn(WeatherOf(X), 0, X.n) = {"rain"}

\* C10: whatever fold, in fit and in predict, each value of weather,
\* season, holiday and workingday that reaches ordinal_encoder is one of
\* the values categories lists for its column: no fold loses its scores to
\* an unknown category.
EncoderSeesKnownCategories ==
    /\ encSeen.call # "none" =>
         \A i \in 1 .. Len(categorical_columns) :
            encSeen.values[i] \subseteq Range(categories[i])
    /\ faults = 0 => \A i \in DOMAIN ev.errors : ev.errors[i].scored

\* the last fold predicts on rows that had heavy_rain in the frame
EncoderSawFormerHeavyRain ==
    /\ encSeen.call = "predict"
    /\ encSeen.fold = 5
    /\ "heavy_rain" \in ValuesIn(WeatherOf(df), all_splits[5].test[1],
                                 all_splits[5].test[2])
    /\ encSeen.values[1] = {"rain"}

\* C11: in gbrt_pipeline the matrix that reaches the regressor has the four
\* ordinal-encoded columns weather, season, holiday, workingday at positions
\* 0 to 3 and, after them, the untouched non-categorical columns of X, so
\* categorical_features=range(4) designates every encoded column and no
\* numerical one.
CategoricalFeaturesAreTheEncoded ==
    gbrtSeen.call # "none" =>
        LET layout == gbrtSeen.layout
            n_cat  == Len(categorical_columns)
        IN  /\ Len(layout) = Len(X.columns)
            /\ \A i \in 1 .. n_cat :
                  layout[i] = [column |-> categorical_columns[i], encoded |-> TRUE]
            /\ \A i \in (n_cat + 1) .. Len(layout) :
                  /\ ~ layout[i].encoded
                  /\ layout[i].column \notin Range(categorical_columns)
            /\ [i \in 1 .. (Len(layout) - n_cat) |-> layout[n_cat + i].column]
                  = NonCategoricalColumns(X)
            /\ gbrtSeen.categorical =
                  { i - 1 : i \in { j \in DOMAIN layout : layout[j].encoded } }
            /\ gbrtSeen.categorical = 0 .. 3

\* a cross-validation predict of gbrt_pipeline on the 12 columns of X
RegressorSawTwelveColumns ==
    /\ gbrtSeen.call = "predict"
    /\ ev.model = "gbrt_pipeline" /\ ev.fold = 5
    /\ Len(gbrtSeen.layout) = 12
    /\ gbrtSeen.layout[1].column = "weather"
    /\ gbrtSeen.layout[5] = [column |-> "year", encoded |-> FALSE]
    /\ gbrtSeen.layout[12].column = "windspeed"

============================================================================
